---- MODULE Spec2Model ----
(***************************************************************************)
(* Model of bulk_folder_updater.py: the recursive folder walk              *)
(* (get_all_files_recursive), the spreadsheet matcher and payload builder  *)
(* (build_attributes_from_excel, format_date) and the update loop of main. *)
(*                                                                         *)
(* Text is modelled as a sequence of tokens; a token is an indivisible     *)
(* piece of text ("x", ".", "pdf", " ", "urn:", ...), so that trimming,    *)
(* splitting at the last ".", prefix tests and substring tests are         *)
(* computed on the text rather than assumed.                               *)
(***************************************************************************)
EXTENDS Integers, Sequences, FiniteSets, TLC

VARIABLES tree, stack, listCalls, failedListings,
          df, use_excel,
          pc, all_files, idx, payload, source, matched_row,
          success_count, failed_count, skipped_count, results,
          choice, saved, unspacedCall,
          file_name, item_urn

walkVars  == <<tree, stack, listCalls, failedListings>>
inputVars == <<df, use_excel>>
mainVars  == <<pc, all_files, idx, success_count, failed_count, skipped_count,
               results, choice, saved, unspacedCall>>
matchVars == <<payload, source, matched_row, file_name, item_urn>>
vars == <<tree, stack, listCalls, failedListings, df, use_excel,
          pc, all_files, idx, payload, source, matched_row,
          success_count, failed_count, skipped_count, results,
          choice, saved, unspacedCall, file_name, item_urn>>

(* ------------------------------ bounds --------------------------------- *)
MaxNodes  == 3      \* entries below the root in the trees of SpecWalk
MainNodes == 2      \* entries below the root in the trees of Spec
MaxRows   == 2      \* rows of the datasets of SpecMatch

(* ------------------------------ text ----------------------------------- *)
\* Python's None where a method name is expected, where a text is expected
\* and where a payload list is expected
None      == "None"
NoText    == <<"None">>
PyNone    == [is_none |-> TRUE, items |-> <<>>]
PyList(l) == [is_none |-> FALSE, items |-> l]

\* not payload
Falsy(p) == p.is_none \/ p.items = <<>>

RECURSIVE lstrip(_)
lstrip(s) == IF s # <<>> /\ Head(s) = " " THEN lstrip(Tail(s)) ELSE s

RECURSIVE rstrip(_)
rstrip(s) == IF s # <<>> /\ s[Len(s)] = " " THEN rstrip(SubSeq(s, 1, Len(s) - 1)) ELSE s

\* str.strip()
strip(s) == rstrip(lstrip(s))

\* sub in s
Contains(s, sub) ==
    \E i \in 1..(Len(s) - Len(sub) + 1) : SubSeq(s, i, i + Len(sub) - 1) = sub

\* s.startswith(pre)
StartsWith(s, pre) == Len(s) >= Len(pre) /\ SubSeq(s, 1, Len(pre)) = pre

\* s.rsplit(".", 1)[0] if "." in s else s
rsplit_base(s) ==
    IF \E i \in 1..Len(s) : s[i] = "."
    THEN LET last == CHOOSE i \in 1..Len(s) :
                        s[i] = "." /\ \A j \in (i + 1)..Len(s) : s[j] # "."
         IN  SubSeq(s, 1, last - 1)
    ELSE s

(* --------------------------- the dataset ------------------------------- *)
\* df = [columns |-> sequence of column names, rows |-> sequence of rows];
\* a row maps every column name to a cell.  A cell is an absent value (NaN),
\* a text or a timestamp.
NaN            == [k |-> "nan"]
Text(s)        == [k |-> "str", s |-> s]
Timestamp(d)   == [k |-> "dt", ymd |-> d]

ATTRIBUTE_MAPPING ==
    [c \in {"Package ID", "Package Name", "Contractor", "Location", "Planned Start",
            "Planned End", "Actual Start", "Actual End", "% Completion"} |->
       CASE c = "Package ID"    -> 7374741
         [] c = "Package Name"  -> 7374744
         [] c = "Contractor"    -> 7374759
         [] c = "Location"      -> 7374769
         [] c = "Planned Start" -> 7374777
         [] c = "Planned End"   -> 7374783
         [] c = "Actual Start"  -> 7374787
         [] c = "Actual End"    -> 7374795
         [] c = "% Completion"  -> 7374805]

\* col.lower(), as the words of the column name
LowerWords(col) ==
    CASE col = "Package ID"    -> <<"package", " ", "id">>
      [] col = "Package Name"  -> <<"package", " ", "name">>
      [] col = "Contractor"    -> <<"contractor">>
      [] col = "Location"      -> <<"location">>
      [] col = "Planned Start" -> <<"planned", " ", "start">>
      [] col = "Planned End"   -> <<"planned", " ", "end">>
      [] col = "Actual Start"  -> <<"actual", " ", "start">>
      [] col = "Actual End"    -> <<"actual", " ", "end">>
      [] col = "% Completion"  -> <<"%", " ", "completion">>

\* "start" in col.lower() or "end" in col.lower()
IsDateColumn(col) ==
    Contains(LowerWords(col), <<"start">>) \/ Contains(LowerWords(col), <<"end">>)

(* ------------------------------ dates ---------------------------------- *)
\* The number tokens a date text is made of, with their values and widths
NumberTokens == {"01", "02", "12", "15", "31", "24", "2024"}
NumVal(tok) == CASE tok = "01" -> 1 [] tok = "02" -> 2 [] tok = "12" -> 12
                 [] tok = "15" -> 15 [] tok = "31" -> 31 [] tok = "24" -> 24
                 [] tok = "2024" -> 2024
Digits(tok) == IF tok = "2024" THEN 4 ELSE 2

MonthAbbr == {"Jan", "Feb"}
AbbrVal(tok) == IF tok = "Jan" THEN 1 ELSE 2

IsLeap(y) == (y % 4 = 0 /\ y % 100 # 0) \/ y % 400 = 0
DaysIn(y, m) == IF m = 2 THEN (IF IsLeap(y) THEN 29 ELSE 28)
                ELSE IF m \in {4, 6, 9, 11} THEN 30 ELSE 31

\* datetime(y, m, d) raises ValueError outside the calendar
ValidDate(y, m, d) == m \in 1..12 /\ d >= 1 /\ d <= DaysIn(y, m)

\* %y: 00..68 are 2000.., 69..99 are 1900..
Year2(v) == IF v <= 68 THEN 2000 + v ELSE 1900 + v

\* datetime.strptime(date_str, fmt): <<y, m, d>>, or ValueError
ValueError == <<>>

strptime(s, fmt) ==
    IF Len(s) # 5 THEN ValueError
    ELSE
    CASE fmt = "%d-%b-%y" ->
           IF /\ s[1] \in NumberTokens /\ s[2] = "-" /\ s[3] \in MonthAbbr /\ s[4] = "-"
              /\ s[5] \in NumberTokens /\ Digits(s[1]) = 2 /\ Digits(s[5]) = 2
              /\ ValidDate(Year2(NumVal(s[5])), AbbrVal(s[3]), NumVal(s[1]))
           THEN <<Year2(NumVal(s[5])), AbbrVal(s[3]), NumVal(s[1])>> ELSE ValueError
      [] fmt = "%d-%b-%Y" ->
           IF /\ s[1] \in NumberTokens /\ s[2] = "-" /\ s[3] \in MonthAbbr /\ s[4] = "-"
              /\ s[5] \in NumberTokens /\ Digits(s[1]) = 2 /\ Digits(s[5]) = 4
              /\ ValidDate(NumVal(s[5]), AbbrVal(s[3]), NumVal(s[1]))
           THEN <<NumVal(s[5]), AbbrVal(s[3]), NumVal(s[1])>> ELSE ValueError
      [] fmt = "%Y-%m-%d" ->
           IF /\ s[1] \in NumberTokens /\ s[2] = "-" /\ s[3] \in NumberTokens /\ s[4] = "-"
              /\ s[5] \in NumberTokens
              /\ Digits(s[1]) = 4 /\ Digits(s[3]) = 2 /\ Digits(s[5]) = 2
              /\ ValidDate(NumVal(s[1]), NumVal(s[3]), NumVal(s[5]))
           THEN <<NumVal(s[1]), NumVal(s[3]), NumVal(s[5])>> ELSE ValueError
      [] fmt = "%m/%d/%Y" ->
           IF /\ s[1] \in NumberTokens /\ s[2] = "/" /\ s[3] \in NumberTokens /\ s[4] = "/"
              /\ s[5] \in NumberTokens
              /\ Digits(s[1]) = 2 /\ Digits(s[3]) = 2 /\ Digits(s[5]) = 4
              /\ ValidDate(NumVal(s[5]), NumVal(s[1]), NumVal(s[3]))
           THEN <<NumVal(s[5]), NumVal(s[1]), NumVal(s[3])>> ELSE ValueError
      [] fmt = "%d/%m/%Y" ->
           IF /\ s[1] \in NumberTokens /\ s[2] = "/" /\ s[3] \in NumberTokens /\ s[4] = "/"
              /\ s[5] \in NumberTokens
              /\ Digits(s[1]) = 2 /\ Digits(s[3]) = 2 /\ Digits(s[5]) = 4
              /\ ValidDate(NumVal(s[5]), NumVal(s[3]), NumVal(s[1]))
           THEN <<NumVal(s[5]), NumVal(s[3]), NumVal(s[1])>> ELSE ValueError

\* %m and %d on output: two digits
Render2(v) == CASE v = 1 -> "01" [] v = 2 -> "02" [] v = 12 -> "12" [] v = 15 -> "15"
                [] v = 24 -> "24" [] v = 31 -> "31"

\* %Y on output: four digits
Render4(y) == CASE y = 2001 -> "2001" [] y = 2002 -> "2002" [] y = 2012 -> "2012"
                [] y = 2015 -> "2015" [] y = 2024 -> "2024" [] y = 2031 -> "2031"

\* dt.strftime("%Y-%m-%dT00:00:00.000Z")
strftime(d) == <<Render4(d[1]), "-", Render2(d[2]), "-", Render2(d[3]), "T00:00:00.000Z">>

DateFormats == <<"%d-%b-%y", "%d-%b-%Y", "%Y-%m-%d", "%m/%d/%Y", "%d/%m/%Y">>

RECURSIVE TryFormats(_, _)
TryFormats(date_str, i) ==
    IF i > Len(DateFormats) THEN NoText
    ELSE IF strptime(date_str, DateFormats[i]) # ValueError
         THEN strftime(strptime(date_str, DateFormats[i]))
         ELSE TryFormats(date_str, i + 1)

\* str(value)
str(value) ==
    CASE value.k = "nan" -> <<"nan">>
      [] value.k = "str" -> value.s
      [] value.k = "dt"  -> <<Render4(value.ymd[1]), "-", Render2(value.ymd[2]), "-",
                              Render2(value.ymd[3]), " ", "00:00:00">>

format_date(date_value) ==
    IF date_value.k = "nan" \/ (date_value.k = "str" /\ date_value.s = <<>>) THEN NoText
    ELSE IF date_value.k = "dt" THEN strftime(date_value.ymd)
    ELSE TryFormats(strip(str(date_value)), 1)

(* -------------------- build_attributes_from_excel ---------------------- *)
\* lines 161-167: the first row whose file_name value is the file name or
\* the file name without its extension; 0 when there is none
RECURSIVE ScanFileName(_, _, _)
ScanFileName(d, fname, i) ==
    IF i > Len(d.rows) THEN 0
    ELSE LET row_file_name == strip(str(d.rows[i]["file_name"]))
         IN  IF row_file_name # <<>> /\ (row_file_name = fname \/
                                         row_file_name = rsplit_base(fname))
             THEN i
             ELSE ScanFileName(d, fname, i + 1)

\* the row test without the "urn:" prefix being added
AccFileIdRow_NoPrefix(cell, fname, urn) ==
    LET row_value == strip(str(cell))
    IN  IF row_value = <<>> THEN None
        ELSE IF Contains(row_value, <<"urn:", "adsk">>) \/
                Contains(row_value, <<"dm", ".", "lineage">>)
        THEN IF row_value = urn THEN "urn" ELSE None
        ELSE IF \/ row_value = fname
                \/ rsplit_base(row_value) = rsplit_base(fname)
                \/ row_value = rsplit_base(fname)
             THEN "filename_in_acc_file_id" ELSE None

\* lines 172-194, one row: the method by which the row matches, or None
AccFileIdRow(cell, fname, urn) ==
    LET row_value == strip(str(cell))
    IN  IF row_value = <<>> THEN None
        ELSE IF Contains(row_value, <<"urn:", "adsk">>) \/
                Contains(row_value, <<"dm", ".", "lineage">>)
        THEN LET normal == IF ~StartsWith(row_value, <<"urn:">>)
                           THEN <<"urn:">> \o row_value ELSE row_value
             IN  IF normal = urn THEN "urn" ELSE None
        ELSE IF \/ row_value = fname
                \/ rsplit_base(row_value) = rsplit_base(fname)
                \/ row_value = rsplit_base(fname)
             THEN "filename_in_acc_file_id" ELSE None

\* lines 170-194: the first row of the acc_file_id column that matches
RECURSIVE ScanAccFileId(_, _, _, _)
ScanAccFileId(d, fname, urn, i) ==
    IF i > Len(d.rows) THEN [row |-> 0, method |-> None]
    ELSE LET m == AccFileIdRow(d.rows[i]["acc_file_id"], fname, urn)
         IN  IF m # None THEN [row |-> i, method |-> m]
             ELSE ScanAccFileId(d, fname, urn, i + 1)

\* the acc_file_id column consulted before the file_name column
MatchRow_IdColumnFirst(d, fname, urn) ==
    LET InColumns(c) == \E j \in 1..Len(d.columns) : d.columns[j] = c
        m1 == IF InColumns("acc_file_id")
              THEN ScanAccFileId(d, fname, urn, 1) ELSE [row |-> 0, method |-> None]
        s2 == IF m1.row = 0 /\ InColumns("file_name") THEN ScanFileName(d, fname, 1) ELSE 0
        m2 == IF m1.row = 0 /\ s2 # 0
              THEN [row |-> s2, method |-> "file_name_column"] ELSE m1
        m3 == IF m2.row = 0 /\ Len(d.rows) = 1
              THEN [row |-> 1, method |-> "single_row"] ELSE m2
    IN  m3

\* the fallback taken for any dataset that has a row
MatchRow_FallbackAnyRows(d, fname, urn) ==
    LET InColumns(c) == \E j \in 1..Len(d.columns) : d.columns[j] = c
        s1 == IF InColumns("file_name") THEN ScanFileName(d, fname, 1) ELSE 0
        m1 == [row |-> s1, method |-> IF s1 # 0 THEN "file_name_column" ELSE None]
        m2 == IF m1.row = 0 /\ InColumns("acc_file_id")
              THEN ScanAccFileId(d, fname, urn, 1) ELSE m1
        m3 == IF m2.row = 0 /\ Len(d.rows) >= 1
              THEN [row |-> 1, method |-> "single_row"] ELSE m2
    IN  m3

\* lines 157-199: the matched row (0 for None) and the match method
MatchRow(d, fname, urn) ==
    LET InColumns(c) == \E j \in 1..Len(d.columns) : d.columns[j] = c
        s1 == IF InColumns("file_name") THEN ScanFileName(d, fname, 1) ELSE 0
        m1 == [row |-> s1, method |-> IF s1 # 0 THEN "file_name_column" ELSE None]
        m2 == IF m1.row = 0 /\ InColumns("acc_file_id")
              THEN ScanAccFileId(d, fname, urn, 1) ELSE m1
        m3 == IF m2.row = 0 /\ Len(d.rows) = 1
              THEN [row |-> 1, method |-> "single_row"] ELSE m2
    IN  m3

\* lines 206-213: the value of one schema column
ColumnValue(col, value) ==
    IF IsDateColumn(col) THEN format_date(value)
    ELSE IF value.k # "nan" THEN strip(str(value))
    ELSE NoText

\* a test for None only, which lets an empty text through
Truthy_NotNone(value) == value # NoText

\* line 215: if value
Truthy(value) == value # NoText /\ value # <<>>

\* lines 203-219: the payload of the matched row, column by column
RECURSIVE BuildPayload(_, _, _)
BuildPayload(d, r, j) ==
    IF j > Len(d.columns) THEN <<>>
    ELSE LET col == d.columns[j]
         IN  IF col \in DOMAIN ATTRIBUTE_MAPPING /\ Truthy(ColumnValue(col, d.rows[r][col]))
             THEN <<[id |-> ATTRIBUTE_MAPPING[col],
                     value |-> ColumnValue(col, d.rows[r][col])]>>
                  \o BuildPayload(d, r, j + 1)
             ELSE BuildPayload(d, r, j + 1)

\* lines 149-223, the spreadsheet read without error
build_attributes_from_excel(d, fname, urn) ==
    LET m == MatchRow(d, fname, urn)
    IN  IF m.row # 0
        THEN [payload |-> PyList(BuildPayload(d, m.row, 1)), method |-> m.method,
              row |-> m.row]
        ELSE [payload |-> PyNone, method |-> "not_matched", row |-> 0]

(* --------------------------- the remote tree --------------------------- *)
\* Node 0 is the root folder (ROOT_FOLDER_URN); nodes 1..n are the entries
\* below it.  tree[n] = [parent, type, displayName]; a folder's listing
\* returns its children in ascending node order.
Root == 0

\* The remote identifier of entry n, as text
UrnOf(n) == <<"urn:", "adsk", ".", "wip", ":", "dm", ".", "lineage", ":",
              CASE n = 0 -> "root" [] n = 1 -> "n1" [] n = 2 -> "n2" [] n = 3 -> "n3"
                [] n = 4 -> "n4" [] n = 5 -> "n5" [] n = 6 -> "n6">>

DisplayNames == { <<"x", ".", "pdf">>, <<"y">> }
TypeTags     == { "items", "folders", "other" }

Nodes(t) == DOMAIN t

\* r.json().get("data", []) of a 200 answer: the entries of the folder
FolderData(t, folder_urn) ==
    LET kids == { n \in Nodes(t) : UrnOf(t[n].parent) = folder_urn }
        RECURSIVE order(_)
        order(S) == IF S = {} THEN <<>>
                    ELSE LET m == CHOOSE a \in S : \A b \in S : a <= b
                         IN  <<[id |-> UrnOf(m), type |-> t[m].type,
                                displayName |-> t[m].displayName]>> \o order(S \ {m})
    IN  order(kids)

\* list_folder_contents: the data on status 200, [] on any other status or
\* on an exception
list_folder_contents(t, folder_urn, ok) ==
    IF ok THEN FolderData(t, folder_urn) ELSE <<>>

\* the join without the test for an empty current_path
JoinPath_AlwaysSeparator(current_path, item_name) ==
    current_path \o <<"/">> \o item_name

\* f"{current_path}/{item_name}" if current_path else item_name
JoinPath(current_path, item_name) ==
    IF current_path # <<>> THEN current_path \o <<"/">> \o item_name ELSE item_name

\* One activation of get_all_files_recursive
Frame(folder_urn, current_path) ==
    [folder_urn |-> folder_urn, current_path |-> current_path,
     listed |-> FALSE, contents |-> <<>>, k |-> 1, all_files |-> <<>>]

Top == stack[Len(stack)]
SetTop(f) == [stack EXCEPT ![Len(stack)] = f]

Trees(n, types, names) ==
    { t \in [1..n -> [parent : 0..(n - 1), type : types, displayName : names]] :
        \A m \in 1..n : /\ t[m].parent < m
                        /\ t[m].parent # Root => t[t[m].parent].type = "folders" }

(* ------------------------ get_all_files_recursive ---------------------- *)
\* line 65: contents = list_folder_contents(...), answered with 200
ListFolderOK ==
    /\ pc = "scan" /\ stack # <<>> /\ ~Top.listed
    /\ stack' = SetTop([Top EXCEPT !.listed = TRUE,
                          !.contents = list_folder_contents(tree, Top.folder_urn, TRUE)])
    /\ listCalls' = [listCalls EXCEPT ![Top.folder_urn] = @ + 1]
    /\ UNCHANGED <<tree, failedListings, inputVars, mainVars, matchVars>>

\* a failed listing that ends the walk with nothing
ListFolderFail_Aborts ==
    /\ pc = "scan" /\ stack # <<>> /\ ~Top.listed
    /\ listCalls' = [listCalls EXCEPT ![Top.folder_urn] = @ + 1]
    /\ failedListings' = failedListings \cup {Top.folder_urn}
    /\ stack' = <<>>
    /\ all_files' = <<>>
    /\ pc' = "found"
    /\ UNCHANGED <<tree, inputVars, matchVars, idx, success_count, failed_count,
                   skipped_count, results, choice, saved, unspacedCall>>

\* line 65: the listing answers with a non-200 status or raises
ListFolderFail ==
    /\ pc = "scan" /\ stack # <<>> /\ ~Top.listed
    /\ stack' = SetTop([Top EXCEPT !.listed = TRUE,
                          !.contents = list_folder_contents(tree, Top.folder_urn, FALSE)])
    /\ listCalls' = [listCalls EXCEPT ![Top.folder_urn] = @ + 1]
    /\ failedListings' = failedListings \cup {Top.folder_urn}
    /\ UNCHANGED <<tree, inputVars, mainVars, matchVars>>

\* lines 72-80: the entry is a file
ItemIsFile ==
    /\ pc = "scan" /\ stack # <<>> /\ Top.listed /\ Top.k <= Len(Top.contents)
    /\ LET item == Top.contents[Top.k]
           file_info == [id |-> item.id, name |-> item.displayName,
                         path |-> JoinPath(Top.current_path, item.displayName)]
       IN  /\ item.type = "items"
           /\ stack' = SetTop([Top EXCEPT !.all_files = Append(@, file_info),
                                          !.k = @ + 1])
    /\ UNCHANGED <<tree, listCalls, failedListings, inputVars, mainVars, matchVars>>

\* lines 82-86: the entry is a subfolder; recurse into it
ItemIsFolder ==
    /\ pc = "scan" /\ stack # <<>> /\ Top.listed /\ Top.k <= Len(Top.contents)
    /\ LET item == Top.contents[Top.k]
           subfolder_path == JoinPath(Top.current_path, item.displayName)
       IN  /\ item.type = "folders"
           /\ stack' = Append(stack, Frame(item.id, subfolder_path))
    /\ UNCHANGED <<tree, listCalls, failedListings, inputVars, mainVars, matchVars>>

\* lines 72, 82: neither "items" nor "folders"; the entry is passed over
ItemIgnored ==
    /\ pc = "scan" /\ stack # <<>> /\ Top.listed /\ Top.k <= Len(Top.contents)
    /\ Top.contents[Top.k].type \notin {"items", "folders"}
    /\ stack' = SetTop([Top EXCEPT !.k = @ + 1])
    /\ UNCHANGED <<tree, listCalls, failedListings, inputVars, mainVars, matchVars>>

\* lines 89, 87: a recursive activation returns; the caller extends its list
ReturnToCaller ==
    /\ pc = "scan" /\ Len(stack) > 1 /\ Top.listed /\ Top.k > Len(Top.contents)
    /\ LET caller == stack[Len(stack) - 1]
       IN  stack' = SubSeq(stack, 1, Len(stack) - 2) \o
                     <<[caller EXCEPT !.all_files = @ \o Top.all_files, !.k = @ + 1]>>
    /\ UNCHANGED <<tree, listCalls, failedListings, inputVars, mainVars, matchVars>>

\* lines 89, 256: the outermost activation returns to main
ReturnToMain ==
    /\ pc = "scan" /\ Len(stack) = 1 /\ Top.listed /\ Top.k > Len(Top.contents)
    /\ all_files' = Top.all_files
    /\ stack' = <<>>
    /\ pc' = "found"
    /\ UNCHANGED <<tree, listCalls, failedListings, inputVars, matchVars,
                   idx, success_count, failed_count, skipped_count, results,
                   choice, saved, unspacedCall>>

get_all_files_recursive ==
    \/ ListFolderOK \/ ListFolderFail \/ ItemIsFile \/ ItemIsFolder
    \/ ItemIgnored \/ ReturnToCaller \/ ReturnToMain

NoDataset == [columns |-> <<>>, rows |-> <<>>]

MainStart(t) ==
    /\ tree = t
    /\ stack = <<Frame(UrnOf(Root), <<>>)>>
    /\ listCalls = [f \in {UrnOf(n) : n \in {Root} \cup Nodes(t)} |-> 0]
    /\ failedListings = {}
    /\ all_files = <<>> /\ idx = 0
    /\ payload = PyNone /\ source = None /\ matched_row = 0
    /\ success_count = 0 /\ failed_count = 0 /\ skipped_count = 0
    /\ results = <<>>
    /\ choice = None /\ saved = FALSE /\ unspacedCall = 0
    /\ file_name = <<>> /\ item_urn = <<>>

\* The walk alone, over every tree of at most MaxNodes entries
InitWalk ==
    /\ \E n \in 0..MaxNodes : \E t \in Trees(n, TypeTags, DisplayNames) : MainStart(t)
    /\ pc = "scan"
    /\ df = NoDataset /\ use_excel = FALSE

SpecWalk == InitWalk /\ [][get_all_files_recursive]_vars

(* ------------------------------- main ---------------------------------- *)
\* pc is the place main has reached:
\*   "start" (236), "auth" (252), "scan" (256), "found" (258), "for" (278),
\*   "body" (286), "version" (301), "update" (310), "sleep" (321),
\*   "summary" (323), and the ways main ends: "missing_env" (238),
\*   "raised" (252), "no_files" (262), "cancelled" (268), "done" (337).
\* unspacedCall is the index of the file that made the latest external call
\* (version lookup or update) not yet followed by time.sleep; 0 when none.
Terminal == {"missing_env", "raised", "no_files", "cancelled", "done"}

Skip(reason) ==
    /\ skipped_count' = skipped_count + 1
    /\ results' = Append(results, [file |-> all_files[idx].path, status |-> "skipped",
                                   reason |-> reason])
    /\ pc' = "for"
    /\ UNCHANGED <<success_count, failed_count>>

\* lines 236-238: an environment variable is missing
MissingEnv ==
    /\ pc = "start"
    /\ pc' = "missing_env"
    /\ UNCHANGED <<walkVars, inputVars, matchVars, all_files, idx, success_count,
                   failed_count, skipped_count, results, choice, saved, unspacedCall>>

\* lines 236, 240-250: the environment is complete
EnvPresent ==
    /\ pc = "start"
    /\ pc' = "auth"
    /\ UNCHANGED <<walkVars, inputVars, matchVars, all_files, idx, success_count,
                   failed_count, skipped_count, results, choice, saved, unspacedCall>>

\* lines 252, 42-44: the token is obtained
get_token ==
    /\ pc = "auth"
    /\ pc' = "scan"
    /\ UNCHANGED <<walkVars, inputVars, matchVars, all_files, idx, success_count,
                   failed_count, skipped_count, results, choice, saved, unspacedCall>>

\* lines 252, 42-43: requests.post or raise_for_status raises
get_token_raises ==
    /\ pc = "auth"
    /\ pc' = "raised"
    /\ UNCHANGED <<walkVars, inputVars, matchVars, all_files, idx, success_count,
                   failed_count, skipped_count, results, choice, saved, unspacedCall>>

\* lines 260-262
NoFilesFound ==
    /\ pc = "found" /\ Len(all_files) = 0
    /\ pc' = "no_files"
    /\ UNCHANGED <<walkVars, inputVars, matchVars, all_files, idx, success_count,
                   failed_count, skipped_count, results, choice, saved, unspacedCall>>

\* lines 265-276: the operator answers y (in either case)
PromptYes ==
    /\ pc = "found" /\ Len(all_files) # 0
    /\ choice' = "y"
    /\ success_count' = 0 /\ failed_count' = 0 /\ skipped_count' = 0
    /\ results' = <<>>
    /\ pc' = "for"
    /\ UNCHANGED <<walkVars, inputVars, matchVars, all_files, idx, saved, unspacedCall>>

\* lines 265-268: the operator answers anything else
PromptNo ==
    /\ pc = "found" /\ Len(all_files) # 0
    /\ choice' = "n"
    /\ pc' = "cancelled"
    /\ UNCHANGED <<walkVars, inputVars, matchVars, all_files, idx, success_count,
                   failed_count, skipped_count, results, saved, unspacedCall>>

\* lines 278-283: the loop takes the next file
ForNext ==
    /\ pc = "for" /\ idx < Len(all_files)
    /\ idx' = idx + 1
    /\ file_name' = all_files[idx + 1].name
    /\ item_urn' = all_files[idx + 1].id
    /\ pc' = "body"
    /\ UNCHANGED <<walkVars, inputVars, payload, source, matched_row, all_files,
                   success_count, failed_count, skipped_count, results, choice, saved,
                   unspacedCall>>

\* line 278: the loop is exhausted
ForEnd ==
    /\ pc = "for" /\ idx = Len(all_files)
    /\ pc' = "summary"
    /\ UNCHANGED <<walkVars, inputVars, matchVars, all_files, idx, success_count,
                   failed_count, skipped_count, results, choice, saved, unspacedCall>>

\* lines 294-298: no spreadsheet
NoExcel ==
    /\ pc = "body" /\ ~use_excel
    /\ Skip("No Excel file")
    /\ UNCHANGED <<walkVars, inputVars, matchVars, all_files, idx, choice, saved,
                   unspacedCall>>

\* lines 286-292: the payload is None or empty
BuildSkipped ==
    /\ pc = "body" /\ use_excel
    /\ LET r == build_attributes_from_excel(df, file_name, item_urn)
       IN  /\ Falsy(r.payload)
           /\ payload' = r.payload /\ source' = r.method /\ matched_row' = r.row
           /\ Skip(r.method)
    /\ UNCHANGED <<walkVars, inputVars, file_name, item_urn, all_files, idx, choice,
                   saved, unspacedCall>>

\* lines 286-292, 224-228: reading the spreadsheet raises
BuildError ==
    /\ pc = "body" /\ use_excel
    /\ payload' = PyNone /\ source' = "error" /\ matched_row' = 0
    /\ Skip("error")
    /\ UNCHANGED <<walkVars, inputVars, file_name, item_urn, all_files, idx, choice,
                   saved, unspacedCall>>

\* lines 286-293: a payload with at least one attribute
BuildMatched ==
    /\ pc = "body" /\ use_excel
    /\ LET r == build_attributes_from_excel(df, file_name, item_urn)
       IN  /\ ~Falsy(r.payload)
           /\ payload' = r.payload /\ source' = r.method /\ matched_row' = r.row
    /\ pc' = "version"
    /\ UNCHANGED <<walkVars, inputVars, file_name, item_urn, all_files, idx,
                   success_count, failed_count, skipped_count, results, choice, saved,
                   unspacedCall>>

\* lines 301-303, 92-100: the tip version is resolved
VersionOK ==
    /\ pc = "version"
    /\ unspacedCall' = idx
    /\ pc' = "update"
    /\ UNCHANGED <<walkVars, inputVars, matchVars, all_files, idx, success_count,
                   failed_count, skipped_count, results, choice, saved>>

\* a failed lookup recorded without being counted
VersionFail_NoTally ==
    /\ pc = "version"
    /\ unspacedCall' = idx
    /\ results' = Append(results, [file |-> all_files[idx].path, status |-> "failed",
                                   reason |-> "Version lookup failed"])
    /\ pc' = "for"
    /\ UNCHANGED <<walkVars, inputVars, matchVars, all_files, idx, success_count,
                   failed_count, skipped_count, choice, saved>>

\* a failed lookup that ends the run
VersionFail_Raises ==
    /\ pc = "version"
    /\ unspacedCall' = idx
    /\ pc' = "raised"
    /\ UNCHANGED <<walkVars, inputVars, matchVars, all_files, idx, success_count,
                   failed_count, skipped_count, results, choice, saved>>

\* lines 301-307, 101-103: the version lookup answers None
VersionFail ==
    /\ pc = "version"
    /\ unspacedCall' = idx
    /\ failed_count' = failed_count + 1
    /\ results' = Append(results, [file |-> all_files[idx].path, status |-> "failed",
                                   reason |-> "Version lookup failed"])
    /\ pc' = "for"
    /\ UNCHANGED <<walkVars, inputVars, matchVars, all_files, idx, success_count,
                   skipped_count, choice, saved>>

\* lines 310-315, 120-121: the update answers 200
UpdateOK ==
    /\ pc = "update"
    /\ unspacedCall' = idx
    /\ success_count' = success_count + 1
    /\ results' = Append(results, [file |-> all_files[idx].path, status |-> "success",
                                   attrs |-> Len(payload.items)])
    /\ pc' = "sleep"
    /\ UNCHANGED <<walkVars, inputVars, matchVars, all_files, idx, failed_count,
                   skipped_count, choice, saved>>

\* lines 310-319, 122-125: the update answers another status or raises
UpdateFail ==
    /\ pc = "update"
    /\ unspacedCall' = idx
    /\ failed_count' = failed_count + 1
    /\ results' = Append(results, [file |-> all_files[idx].path, status |-> "failed",
                                   reason |-> "Status"])
    /\ pc' = "sleep"
    /\ UNCHANGED <<walkVars, inputVars, matchVars, all_files, idx, success_count,
                   skipped_count, choice, saved>>

\* line 321: time.sleep(0.5)
Sleep ==
    /\ pc = "sleep"
    /\ unspacedCall' = 0
    /\ pc' = "for"
    /\ UNCHANGED <<walkVars, inputVars, matchVars, all_files, idx, success_count,
                   failed_count, skipped_count, results, choice, saved>>

\* lines 323-337: the summary is printed and the results are saved
Summary ==
    /\ pc = "summary"
    /\ saved' = TRUE
    /\ pc' = "done"
    /\ UNCHANGED <<walkVars, inputVars, matchVars, all_files, idx, success_count,
                   failed_count, skipped_count, results, choice, unspacedCall>>

main ==
    \/ MissingEnv \/ EnvPresent \/ get_token \/ get_token_raises
    \/ NoFilesFound \/ PromptYes \/ PromptNo \/ ForNext \/ ForEnd
    \/ NoExcel \/ BuildSkipped \/ BuildError \/ BuildMatched
    \/ VersionOK \/ VersionFail \/ UpdateOK \/ UpdateFail \/ Sleep \/ Summary

Next == get_all_files_recursive \/ main

(* ------------------------- inputs of the run --------------------------- *)
RowOf(fname_cell, id_cell, loc_cell) ==
    [c \in {"file_name", "acc_file_id", "Location"} |->
        CASE c = "file_name" -> fname_cell [] c = "acc_file_id" -> id_cell
          [] c = "Location" -> loc_cell]

\* Three spreadsheets: one matching by name with a row that has no usable
\* attribute, one with a single row, one matching one file by URN only
MainDatasets ==
    { [columns |-> <<"file_name", "acc_file_id", "Location">>,
       rows |-> << RowOf(Text(<<"x">>), NaN, Text(<<" ", "R", " ">>)),
                   RowOf(Text(<<"y">>), NaN, NaN) >>],
      [columns |-> <<"file_name", "acc_file_id", "Location">>,
       rows |-> << RowOf(NaN, Text(UrnOf(1)), Text(<<"R">>)) >>],
      [columns |-> <<"file_name", "acc_file_id", "Location">>,
       rows |-> << RowOf(NaN, Text(Tail(UrnOf(1))), Text(<<"R">>)),
                   RowOf(NaN, NaN, Text(<<"R">>)) >>] }

Init ==
    /\ \E n \in 0..MainNodes : \E t \in Trees(n, TypeTags, DisplayNames) :
          MainStart(t)
    /\ pc = "start"
    /\ \/ use_excel = TRUE /\ df \in MainDatasets
       \/ use_excel = FALSE /\ df = NoDataset

Spec == Init /\ [][Next]_vars

\* The runs checked for completion: the same trees with the display name of
\* an entry fixed by its position
FairInit ==
    /\ \E n \in 0..MainNodes : \E t \in Trees(n, TypeTags, DisplayNames) :
          /\ \A m \in 1..n :
                t[m].displayName = IF m = 1 THEN <<"x", ".", "pdf">> ELSE <<"y">>
          /\ MainStart(t)
    /\ pc = "start"
    /\ \/ use_excel = TRUE /\ df \in MainDatasets
       \/ use_excel = FALSE /\ df = NoDataset

\* main is a sequential program: a step that can be taken is eventually taken
FairSpec == FairInit /\ [][Next]_vars /\ WF_vars(Next)

(* ------------- build_attributes_from_excel over datasets --------------- *)
\* The files the function is called for
MatchFiles ==
    { [name |-> <<"x", ".", "pdf">>, urn |-> UrnOf(1)],
      [name |-> <<"y">>,             urn |-> UrnOf(2)],
      [name |-> <<".", "pdf">>,      urn |-> UrnOf(1)] }

NameCells == { NaN, Text(<<"x">>), Text(<<" ", "x", ".", "pdf", " ">>), Text(<<" ">>) }
IdCells   == { NaN, Text(UrnOf(1)), Text(Tail(UrnOf(1))), Text(<<"x", ".", "doc">>),
               Text(<<"y">>) }
TextCells == { NaN, Text(<<" ", "R", " ">>), Text(<<" ">>), Timestamp(<<2024, 1, 15>>) }
DateCells == { NaN, Text(<<"15", "-", "Jan", "-", "24">>),
               Text(<<" ", "15", "/", "01", "/", "2024">>),
               Text(<<"31", "-", "Feb", "-", "2024">>), Text(<<"soon">>), Text(<<>>),
               Timestamp(<<2024, 1, 15>>) }
NoteCells == { Text(<<"n">>) }

\* the rows over a list of columns, each cell drawn from the set of its column
RECURSIVE RowsOver(_, _)
RowsOver(columns, cells) ==
    IF columns = <<>> THEN { <<>> }
    ELSE { (Head(columns) :> v) @@ r :
              v \in cells[Head(columns)], r \in RowsOver(Tail(columns), cells) }

\* datasets that exercise the matching: up to MaxRows rows
MatchCells == [c \in {"file_name", "acc_file_id", "Location"} |->
                 CASE c = "file_name" -> NameCells [] c = "acc_file_id" -> IdCells
                   [] c = "Location" -> { NaN, Text(<<" ", "R", " ">>) }]
MatchColumns == { <<"file_name", "acc_file_id", "Location">>,
                  <<"acc_file_id", "Location">>,
                  <<"Location", "file_name">> }
MatchDataset(d) ==
    \E cs \in MatchColumns : \E n \in 0..MaxRows :
        \E rs \in [1..n -> RowsOver(cs, MatchCells)] : d = [columns |-> cs, rows |-> rs]

\* datasets that exercise the payload: one row, schema and other columns
PayloadCells == [c \in {"Planned Start", "Actual End", "Location", "% Completion",
                         "Notes", "file_name"} |->
                   CASE c \in {"Planned Start", "Actual End"} -> DateCells
                     [] c \in {"Location", "% Completion"} -> TextCells
                     [] c = "Notes" -> NoteCells
                     [] c = "file_name" -> { Text(<<"x">>) }]
PayloadColumns == { <<"Planned Start", "Notes", "Location", "Actual End">>,
                    <<"% Completion", "file_name", "Actual End", "Location",
                      "Planned Start">> }
PayloadDataset(d) ==
    \E cs \in PayloadColumns :
        \E r \in RowsOver(cs, PayloadCells) : d = [columns |-> cs, rows |-> <<r>>]

InitMatch ==
    /\ MatchDataset(df) \/ PayloadDataset(df)
    /\ use_excel = TRUE
    /\ \E f \in MatchFiles : file_name = f.name /\ item_urn = f.urn
    /\ pc = "call"
    /\ payload = PyNone /\ source = None /\ matched_row = 0
    /\ tree = <<>> /\ stack = <<>> /\ listCalls = <<>> /\ failedListings = {}
    /\ all_files = <<>> /\ idx = 0
    /\ success_count = 0 /\ failed_count = 0 /\ skipped_count = 0
    /\ results = <<>> /\ choice = None /\ saved = FALSE /\ unspacedCall = 0

\* line 287: payload, source = build_attributes_from_excel(...)
CallBuildAttributes ==
    /\ pc = "call"
    /\ LET r == build_attributes_from_excel(df, file_name, item_urn)
       IN  payload' = r.payload /\ source' = r.method /\ matched_row' = r.row
    /\ pc' = "returned"
    /\ UNCHANGED <<walkVars, inputVars, file_name, item_urn, all_files, idx,
                   success_count, failed_count, skipped_count, results, choice, saved,
                   unspacedCall>>

SpecMatch == InitMatch /\ [][CallBuildAttributes]_vars

(* ============================ properties =============================== *)
Items(t) == { n \in Nodes(t) : t[n].type = "items" }

\* the folders above entry n, the root included
RECURSIVE Ancestors(_, _)
Ancestors(t, n) == IF n = Root THEN {} ELSE {t[n].parent} \cup Ancestors(t, t[n].parent)

\* the display names from below the root down to entry n
RECURSIVE NamesTo(_, _)
NamesTo(t, n) == IF n = Root THEN <<>> ELSE Append(NamesTo(t, t[n].parent), t[n].displayName)

\* names joined with "/"
RECURSIVE JoinSlash(_)
JoinSlash(names) == IF Len(names) = 1 THEN names[1]
                    ELSE names[1] \o <<"/">> \o JoinSlash(Tail(names))

\* the files whose folders, up to the root, were all listed successfully
Surviving(t, failed) ==
    { n \in Items(t) : \A a \in Ancestors(t, n) : UrnOf(a) \notin failed }

ReturnedExactly(S) ==
    /\ Len(all_files) = Cardinality(S)
    /\ { all_files[i].id : i \in 1..Len(all_files) } = { UrnOf(n) : n \in S }
    /\ \A i \in 1..Len(all_files) : \E n \in S :
          /\ all_files[i].id = UrnOf(n)
          /\ all_files[i].name = tree[n].displayName
          /\ all_files[i].path = JoinSlash(NamesTo(tree, n))

\* C1: when every listing succeeds, the walk returns exactly the entries of
\* type "items" of the tree, each once, no folder and no entry of another
\* type, and the path of each is the display names of its folders below the
\* root and its own, joined with "/", without a leading separator.
C1_WalkReturnsExactlyTheFiles ==
    (pc = "found" /\ failedListings = {}) => ReturnedExactly(Items(tree))

C1_Witness ==
    /\ pc = "found" /\ failedListings = {}
    /\ \E n \in Nodes(tree) : tree[n].type = "other"
    /\ \E i \in 1..Len(all_files) : Contains(all_files[i].path, <<"/">>)

\* C5: a folder whose listing fails contributes no file and the walk goes
\* on: the files of every folder listed successfully (siblings before and
\* after the failed one included) are returned, and no listing is requested
\* twice.
C5_FailedListingAbsorbed ==
    /\ \A f \in DOMAIN listCalls : listCalls[f] <= 1
    /\ \A f \in failedListings : listCalls[f] = 1
    /\ pc = "found" => ReturnedExactly(Surviving(tree, failedListings))

C5_Witness ==
    /\ pc = "found"
    /\ \E f \in Nodes(tree) :
          /\ UrnOf(f) \in failedListings
          /\ \E a, b \in Surviving(tree, failedListings) :
                a < f /\ f < b /\ tree[a].parent = tree[f].parent
                               /\ tree[b].parent = tree[f].parent

(* ---------------------------- matching --------------------------------- *)
HasColumn(d, c) == \E j \in 1..Len(d.columns) : d.columns[j] = c

\* row i matches the file through the file_name column
NameMatch(d, i, fname) ==
    /\ HasColumn(d, "file_name")
    /\ LET v == strip(str(d.rows[i]["file_name"]))
       IN  v # <<>> /\ (v = fname \/ v = rsplit_base(fname))

IsUrnValue(v) == Contains(v, <<"urn:", "adsk">>) \/ Contains(v, <<"dm", ".", "lineage">>)

\* row i matches the file through the acc_file_id column, as a URN
UrnMatch(d, i, urn) ==
    /\ HasColumn(d, "acc_file_id")
    /\ LET v == strip(str(d.rows[i]["acc_file_id"]))
       IN  /\ IsUrnValue(v)
           /\ \/ Head(v) = "urn:" /\ v = urn
              \/ Head(v) # "urn:" /\ <<"urn:">> \o v = urn

\* row i matches the file through the acc_file_id column, as a file name
FilenameMatch(d, i, fname) ==
    /\ HasColumn(d, "acc_file_id")
    /\ LET v == strip(str(d.rows[i]["acc_file_id"]))
       IN  /\ v # <<>> /\ ~IsUrnValue(v)
           /\ (v = fname \/ v = rsplit_base(fname)
                         \/ rsplit_base(v) = rsplit_base(fname))

RowsOf(d) == 1..Len(d.rows)
First(S) == CHOOSE i \in S : \A j \in S : i <= j

NameRows == { i \in RowsOf(df) : NameMatch(df, i, file_name) }
UrnRows  == { i \in RowsOf(df) : UrnMatch(df, i, item_urn) }
FileRows == { i \in RowsOf(df) : FilenameMatch(df, i, file_name) }

\* C2: if some row matches the file through the file_name column (its
\* trimmed, non-empty value is the file name or the file name without its
\* last extension), the match is made by the name column, on the first such
\* row, whatever the acc_file_id column holds.
C2_NameColumnFirst ==
    (pc = "returned" /\ NameRows # {}) =>
        /\ source = "file_name_column"
        /\ matched_row = First(NameRows)

C2_Witness ==
    /\ pc = "returned" /\ source = "file_name_column"
    /\ matched_row = 2
    /\ 1 \in UrnRows \cup FileRows

\* C6 as stated: without a name-column match, a row that matches as URN wins
\* by the URN strategy (first such row) even if an earlier row matches as a
\* file name, and the file-name strategy gives the result only when no row
\* matches as URN.
C6_UrnBeforeFilename ==
    (pc = "returned" /\ NameRows = {}) =>
        /\ UrnRows # {} => (source = "urn" /\ matched_row = First(UrnRows))
        /\ source = "filename_in_acc_file_id" => UrnRows = {}

\* C6 amended: without a name-column match, the acc_file_id column is
\* scanned once in row order and the first row that matches, as URN or as
\* file name, wins; the strategy reported is the one by which that row
\* matches.
C6_FirstAccFileIdRowWins ==
    (pc = "returned" /\ NameRows = {} /\ UrnRows \cup FileRows # {}) =>
        /\ matched_row = First(UrnRows \cup FileRows)
        /\ source = IF matched_row \in UrnRows THEN "urn" ELSE "filename_in_acc_file_id"

C6_Witness ==
    /\ pc = "returned" /\ NameRows = {}
    /\ source = "filename_in_acc_file_id" /\ matched_row = 1
    /\ UrnRows # {}

\* C7: the single-row fallback is used exactly when the dataset has one row
\* and strategies 1-3 found nothing; a one-row dataset always gives a match;
\* with no row or several rows an unmatched file is reported not_matched.
C7_SingleRowFallback ==
    pc = "returned" =>
        LET unmatched == NameRows = {} /\ UrnRows = {} /\ FileRows = {}
        IN  /\ source = "single_row" <=> (Len(df.rows) = 1 /\ unmatched)
            /\ Len(df.rows) = 1 => (source # "not_matched" /\ matched_row = 1
                                    /\ ~payload.is_none)
            /\ (Len(df.rows) # 1 /\ unmatched) =>
                  (source = "not_matched" /\ matched_row = 0 /\ payload.is_none)

C7_Witness ==
    /\ pc = "returned" /\ source = "single_row"
    /\ HasColumn(df, "file_name") /\ HasColumn(df, "acc_file_id")
    /\ df.rows[1]["acc_file_id"] # NaN

(* ----------------------------- payload --------------------------------- *)
Position(d, c) == CHOOSE j \in 1..Len(d.columns) : d.columns[j] = c
ColumnOfId(id) == CHOOSE c \in DOMAIN ATTRIBUTE_MAPPING : ATTRIBUTE_MAPPING[c] = id
PayloadIds == { payload.items[i].id : i \in 1..Len(payload.items) }

\* C8: a payload holds no attribute id twice, only ids of ATTRIBUTE_MAPPING,
\* no empty or absent value (absent cells, blank texts and unparseable dates
\* are left out; a date that is emitted is an ISO midnight timestamp), and
\* its entries follow the column order of the dataset.
C8_PayloadWellFormed ==
    (pc = "returned" /\ ~payload.is_none) =>
        LET p == payload.items
        IN  /\ \A i \in 1..Len(p) :
                  /\ \E c \in DOMAIN ATTRIBUTE_MAPPING :
                        ATTRIBUTE_MAPPING[c] = p[i].id /\ HasColumn(df, c)
                  /\ p[i].value # NoText /\ p[i].value # <<>>
                  /\ p[i].value[1] # " " /\ p[i].value[Len(p[i].value)] # " "
                  /\ ColumnOfId(p[i].id) \in {"Planned Start", "Planned End",
                                              "Actual Start", "Actual End"}
                        => (Len(p[i].value) = 6 /\ p[i].value[6] = "T00:00:00.000Z")
            /\ \A i, j \in 1..Len(p) :
                  i < j => /\ p[i].id # p[j].id
                           /\ Position(df, ColumnOfId(p[i].id))
                                 < Position(df, ColumnOfId(p[j].id))
            /\ \A c \in DOMAIN ATTRIBUTE_MAPPING :
                  (HasColumn(df, c) /\
                     (df.rows[matched_row][c] = NaN \/
                      (df.rows[matched_row][c].k = "str" /\
                         strip(df.rows[matched_row][c].s) = <<>>)))
                  => ATTRIBUTE_MAPPING[c] \notin PayloadIds

C8_Witness ==
    /\ pc = "returned" /\ ~payload.is_none
    /\ Len(payload.items) = 2
    /\ HasColumn(df, "% Completion") /\ HasColumn(df, "Actual End")
    /\ HasColumn(df, "Planned Start") /\ df.rows[1]["Planned Start"] = Text(<<"soon">>)
    /\ HasColumn(df, "Location") /\ df.rows[1]["Location"] = Text(<<" ">>)
    /\ PayloadIds = {ATTRIBUTE_MAPPING["% Completion"], ATTRIBUTE_MAPPING["Actual End"]}

(* ------------------------------ the loop ------------------------------- *)
MatchStrategies == {"file_name_column", "urn", "filename_in_acc_file_id", "single_row"}

\* C3 as stated: a file whose row was matched is never skipped, also when
\* its payload is empty; its record is success or failed.
C3_MatchedFileNeverSkipped ==
    \A k \in 1..Len(results) :
        results[k].status = "skipped" => results[k].reason \notin MatchStrategies

\* C4: the three tallies add up to the number of records, which is the
\* number of files processed; record k is the record of file k; when the
\* loop is over the tallies add up to the number of files found.
C4_TalliesMatchRecords ==
    pc \in {"for", "body", "version", "update", "sleep", "summary", "done"} =>
        /\ success_count + failed_count + skipped_count = Len(results)
        /\ Len(results) = IF pc \in {"body", "version", "update"} THEN idx - 1 ELSE idx
        /\ \A k \in 1..Len(results) : results[k].file = all_files[k].path
        /\ success_count = Cardinality({k \in 1..Len(results) : results[k].status = "success"})
        /\ failed_count = Cardinality({k \in 1..Len(results) : results[k].status = "failed"})
        /\ skipped_count = Cardinality({k \in 1..Len(results) : results[k].status = "skipped"})
        /\ pc \in {"summary", "done"} =>
              success_count + failed_count + skipped_count = Len(all_files)

C4_Witness ==
    /\ pc = "done" /\ Len(all_files) >= 2
    /\ \E a, b \in 1..Len(results) : results[a].status = "failed" /\ results[b].status # "failed"

\* C9 as stated: whenever main ends after the scan without the operator
\* cancelling, no file discovered included, the report has been produced
\* with a record for every discovered file.
C9_AlwaysFullReport ==
    pc \in {"no_files", "done"} => (saved /\ Len(results) = Len(all_files))

\* C9 amended: once the scan has begun, main always ends; unless no file is
\* discovered or the operator declines, it ends with the report saved and a
\* record for every discovered file, whatever listing, match, version
\* lookup and update failures occur.
C9_RunCompletes ==
    (pc = "scan") ~> (\/ pc = "no_files"
                      \/ pc = "cancelled"
                      \/ (pc = "done" /\ saved /\ Len(results) = Len(all_files)))

C9_Witness ==
    /\ pc = "done" /\ saved /\ Len(results) = Len(all_files)
    /\ Len(results) >= 2
    /\ results[1].status = "failed" /\ results[1].reason = "Version lookup failed"

\* C10 as stated: whenever a file is about to make its first external call,
\* every external call made for an earlier file has been followed by the
\* delay.
C10_DelayBeforeNextCall ==
    pc = "version" => unspacedCall = 0
====
